---- MODULE Spec2Model ----
(***************************************************************************)
(* StockDataProvider (src/utils/api_handler.py): disk cache with expiry,   *)
(* primary source (Alpha Vantage), failover to secondary source (Yahoo     *)
(* Finance), normalisation of both into one record shape.                  *)
(*                                                                         *)
(* get_stock_data is modelled per caller as a sequence of steps, one per   *)
(* file-system or network operation, so that other callers and other       *)
(* parties can act on the cache directory between two of them.             *)
(***************************************************************************)
EXTENDS Integers, Sequences, FiniteSets, TLC

(***************************************************************************)
(* Bounds of the model.                                                    *)
(***************************************************************************)
\* last instant of the wall clock (time.time(), in model ticks)
MaxClock == 2
\* most rows in a time-series payload whose normalisation is explored
MaxRows == 2

(***************************************************************************)
(* Python values.                                                          *)
(***************************************************************************)
\* Python None
None == [kind |-> "None"]
\* a key that a dict does not hold / a field a record does not carry
Absent == [kind |-> "absent"]
\* the outcome of an expression that raised
Raised == [kind |-> "raised"]

\* dict.get(key, default)
Get(d, key, default) == IF key \in DOMAIN d THEN d[key] ELSE default

\* numbers carry their Python type: int, float or numpy.float64
PyInt(n) == [ty |-> "int", v |-> n]
PyFloatVal(n) == [ty |-> "float", v |-> n]
NpFloat(n) == [ty |-> "npfloat", v |-> n]

\* a numeral as text in a JSON body: "12" (integer), "12.0" (decimal, value
\* v), or text that is no numeral at all
IntText(n) == [txt |-> "integer", v |-> n]
DecText(n) == [txt |-> "decimal", v |-> n]
Garbage == [txt |-> "garbage", v |-> 0]

\* float(x): x is a numeral text or the int default 0; ValueError otherwise
FloatOf(x) ==
    IF "ty" \in DOMAIN x THEN PyFloatVal(x.v)
    ELSE IF x.txt \in {"integer", "decimal"} THEN PyFloatVal(x.v)
    ELSE Raised

\* int(x): a decimal text such as "12.0" is a ValueError for int()
IntOf(x) ==
    IF "ty" \in DOMAIN x THEN PyInt(x.v)
    ELSE IF x.txt = "integer" THEN PyInt(x.v)
    ELSE Raised

(***************************************************************************)
(* Date strings.  Python orders str values by their characters; the model  *)
(* keeps the characters that follow the common prefix "202".               *)
(***************************************************************************)
DateStrings == {"2023-12-29", "2024-01-02", "2024-01-03"}

Chars(s) ==
    CASE s = "2023-12-29" -> <<3, 1, 2, 2, 9>>
      [] s = "2024-01-02" -> <<4, 0, 1, 0, 2>>
      [] s = "2024-01-03" -> <<4, 0, 1, 0, 3>>
      [] s = "2024-01-04" -> <<4, 0, 1, 0, 4>>

RECURSIVE LexLess(_, _)
\* a < b for two character sequences
LexLess(a, b) ==
    IF b = <<>> THEN FALSE
    ELSE IF a = <<>> THEN TRUE
    ELSE IF Head(a) # Head(b) THEN Head(a) < Head(b)
    ELSE LexLess(Tail(a), Tail(b))

\* s < t for two date strings
StrLess(s, t) == LexLess(Chars(s), Chars(t))

\* two digits, zero padded
Pad2(n) == IF n < 10 THEN "0" \o ToString(n) ELSE ToString(n)

\* Timestamp.strftime("%Y-%m-%d") of the timestamp <<year, month, day>>
Strftime(ts) == ToString(ts[1]) \o "-" \o Pad2(ts[2]) \o "-" \o Pad2(ts[3])

(***************************************************************************)
(* _process_alpha_vantage_time_series                                      *)
(***************************************************************************)
\* one entry of the time-series mapping to a price point
AVPoint(entry) ==
    LET values == entry.values
        o == FloatOf(Get(values, "1. open", PyInt(0)))
        h == FloatOf(Get(values, "2. high", PyInt(0)))
        l == FloatOf(Get(values, "3. low", PyInt(0)))
        c == FloatOf(Get(values, "4. close", PyInt(0)))
        v == IntOf(Get(values, "5. volume", PyInt(0)))
    IN  IF Raised \in {o, h, l, c, v} THEN Raised
        ELSE [date |-> entry.date, open |-> o, high |-> h, low |-> l,
              close |-> c, volume |-> v]

RECURSIVE InsertDesc(_, _)
\* p put into the descending list s, behind the points that are not older
InsertDesc(p, s) ==
    IF s = <<>> THEN <<p>>
    ELSE IF StrLess(Head(s).date, p.date) THEN <<p>> \o s
    ELSE <<Head(s)>> \o InsertDesc(p, Tail(s))

RECURSIVE SortDesc(_)
\* list.sort(key = date, reverse = True): stable, most recent first
SortDesc(s) ==
    IF s = <<>> THEN <<>>
    ELSE InsertDesc(s[Len(s)], SortDesc(SubSeq(s, 1, Len(s) - 1)))

\* the points in the iteration order of the mapping
AVPoints(time_series) == [i \in 1..Len(time_series) |-> AVPoint(time_series[i])]

\* a conversion of some entry raises (ValueError)
ProcessRaises(time_series) ==
    \E i \in 1..Len(time_series) : AVPoint(time_series[i]) = Raised

\* the normalisation without its final sort
ProcessTimeSeriesUnsorted(time_series) == AVPoints(time_series)

\* the list returned when no conversion raises
ProcessTimeSeries(time_series) == SortDesc(AVPoints(time_series))

(***************************************************************************)
(* The primary source: responses of requests.get and what                 *)
(* _get_alpha_vantage_data makes of them.                                  *)
(***************************************************************************)
\* a string value inside a JSON document
Str(s) == [ty |-> "str", v |-> s]

\* requests.get raised (connection failure, timeout)
TransportError == [kind |-> "error"]
\* a response; json is the parsed body, or Raised when response.json() raises
Response(status, body) == [kind |-> "response", status_code |-> status, json |-> body]

GoodValues ==
    ("1. open" :> DecText(10)) @@ ("2. high" :> DecText(12)) @@
    ("3. low" :> DecText(9)) @@ ("4. close" :> DecText(11)) @@
    ("5. volume" :> IntText(100))
\* a volume such as "100.0": int() raises ValueError
BadVolume == ("4. close" :> DecText(11)) @@ ("5. volume" :> DecText(100))

MetaData == ("3. Last Refreshed" :> "2024-01-03")

TimeSeriesBody(ts) == ("Meta Data" :> MetaData) @@ ("Time Series (Daily)" :> ts)

\* the responses to the TIME_SERIES_DAILY request the model draws from
TimeSeriesResponses ==
    { TransportError,
      Response(500, Raised),
      Response(204, Raised),
      Response(200, Raised),
      Response(200, ("Error Message" :> "Invalid API call")),
      Response(200, ("Information" :> "rate limit")),
      Response(200, ("Note" :> "call frequency")),
      Response(200, ("Note" :> "call frequency") @@
                    TimeSeriesBody(<<[date |-> "2024-01-03", values |-> GoodValues]>>)),
      Response(200, ("Meta Data" :> MetaData)),
      Response(200, TimeSeriesBody(<<>>)),
      Response(200, TimeSeriesBody(<<[date |-> "2024-01-02", values |-> GoodValues],
                                     [date |-> "2024-01-03", values |-> GoodValues]>>)),
      Response(200, TimeSeriesBody(<<[date |-> "2024-01-03", values |-> GoodValues],
                                     [date |-> "2024-01-02", values |-> GoodValues]>>)),
      Response(200, TimeSeriesBody(<<[date |-> "2024-01-03", values |-> BadVolume]>>)) }

\* the responses to the OVERVIEW request the model draws from
OverviewResponses ==
    { TransportError,
      Response(500, Raised),
      Response(200, Raised),
      Response(200, ("Note" :> Str("call frequency"))),
      Response(200, ("Symbol" :> Str("AAPL")) @@ ("Name" :> Str("Apple Inc"))) }

\* the time-series request taken as a success whenever the payload is there,
\* without the look at the error keys
TimeSeriesOutcomeUnchecked(t, response) ==
    IF response.kind = "error" THEN None
    ELSE IF response.status_code # 200 THEN None
    ELSE IF response.json = Raised THEN None
    ELSE LET body == response.json
             time_series == Get(body, "Time Series (Daily)", <<>>)
         IN  IF time_series = <<>> THEN None
             ELSE IF ProcessRaises(time_series) THEN None
             ELSE [kind |-> "record",
                   ticker |-> t,
                   source |-> "alphavantage",
                   last_updated |->
                       Get(Get(body, "Meta Data", <<>>), "3. Last Refreshed", ""),
                   prices |-> ProcessTimeSeries(time_series),
                   company_info |-> Absent]

\* lines 103-127: the time-series request up to processed_data; None is the
\* failure of the primary source
TimeSeriesOutcome(t, response) ==
    IF response.kind = "error" THEN None
    ELSE IF response.status_code # 200 THEN None
    ELSE IF response.json = Raised THEN None
    ELSE LET body == response.json
         IN  IF "Error Message" \in DOMAIN body \/ "Information" \in DOMAIN body
                \/ "Note" \in DOMAIN body
             THEN None
             ELSE LET time_series == Get(body, "Time Series (Daily)", <<>>)
                  IN  IF time_series = <<>> THEN None
                      ELSE IF ProcessRaises(time_series) THEN None
                      ELSE [kind |-> "record",
                            ticker |-> t,
                            source |-> "alphavantage",
                            last_updated |->
                                Get(Get(body, "Meta Data", <<>>), "3. Last Refreshed", ""),
                            prices |-> ProcessTimeSeries(time_series),
                            company_info |-> Absent]

\* lines 129-146: the overview request; an exception in it is caught by the
\* handler of the whole function, which returns None
OverviewOutcome(processed_data, response) ==
    IF response.kind = "error" THEN None
    ELSE IF response.status_code = 200
    THEN IF response.json = Raised THEN None
         ELSE IF "Symbol" \in DOMAIN response.json
              THEN [processed_data EXCEPT !.company_info = response.json]
              ELSE processed_data
    ELSE processed_data

(***************************************************************************)
(* The secondary source: yfinance.                                         *)
(***************************************************************************)
\* a row of history.iterrows(): the index is a timestamp, the values are
\* numpy.float64 (a row Series has one dtype, volume included)
Row(ts) == [date |-> ts, Open |-> NpFloat(10), High |-> NpFloat(12), Low |-> NpFloat(9),
            Close |-> NpFloat(11), Volume |-> NpFloat(100)]

\* stock.info as returned by the library
FullInfo ==
    ("shortName" :> Str("Apple Inc")) @@ ("longBusinessSummary" :> Str("Designs phones")) @@
    ("exchange" :> Str("NMS")) @@ ("industry" :> Str("Consumer Electronics")) @@
    ("sector" :> Str("Technology")) @@ ("marketCap" :> PyInt(3000)) @@
    ("trailingPE" :> PyFloatVal(30)) @@ ("dividendYield" :> PyFloatVal(1))
\* an info mapping that lacks most of the keys asked for
SparseInfo == ("shortName" :> Str("Apple Inc")) @@ ("marketCap" :> PyInt(3000))

\* what yf.Ticker(t) gives: raises names the call that raises ("history",
\* "info" or "none"), history is the rows of history(period = "2y") in index
\* order (ascending dates), info is stock.info
YahooResults ==
    { [raises |-> "history", history |-> <<>>, info |-> FullInfo],
      [raises |-> "none", history |-> <<>>, info |-> FullInfo],
      [raises |-> "info", history |-> <<Row(<<2024, 1, 2>>), Row(<<2024, 1, 3>>)>>,
       info |-> FullInfo],
      [raises |-> "none", history |-> <<Row(<<2024, 1, 2>>), Row(<<2024, 1, 3>>)>>,
       info |-> SparseInfo] }

\* the calendar day of pd.Timestamp.now(); the model's clock stays within it
Today == <<2024, 1, 4>>

\* lines 181-190
YahooPrices(history) ==
    [i \in 1..Len(history) |->
        [date |-> Strftime(history[i].date),
         open |-> history[i].Open,
         high |-> history[i].High,
         low |-> history[i].Low,
         close |-> history[i].Close,
         volume |-> history[i].Volume]]

\* lines 168-178
YahooCompanyInfo(t, info) ==
    ("Symbol" :> Str(t)) @@
    ("Name" :> Get(info, "shortName", Str(""))) @@
    ("Description" :> Get(info, "longBusinessSummary", Str(""))) @@
    ("Exchange" :> Get(info, "exchange", Str(""))) @@
    ("Industry" :> Get(info, "industry", Str(""))) @@
    ("Sector" :> Get(info, "sector", Str(""))) @@
    ("MarketCapitalization" :> Get(info, "marketCap", Str(""))) @@
    ("PERatio" :> Get(info, "trailingPE", Str(""))) @@
    ("DividendYield" :> Get(info, "dividendYield", Str("")))

\* an empty history taken for data: a record is built from the metadata
YahooOutcomeOfEmpty(t, y) ==
    IF y.raises # "none" THEN None
    ELSE [kind |-> "record",
          ticker |-> t,
          source |-> "yahoo",
          last_updated |-> Strftime(Today),
          prices |-> YahooPrices(y.history),
          company_info |-> YahooCompanyInfo(t, y.info)]

\* _get_yahoo_finance_data
YahooOutcome(t, y) ==
    IF y.raises = "history" THEN None
    ELSE IF y.history = <<>> THEN None
    ELSE IF y.raises = "info" THEN None
    ELSE [kind |-> "record",
          ticker |-> t,
          source |-> "yahoo",
          last_updated |-> Strftime(Today),
          prices |-> YahooPrices(y.history),
          company_info |-> YahooCompanyInfo(t, y.info)]

(***************************************************************************)
(* json.dump and json.load.                                                *)
(***************************************************************************)
\* a value as JSON text: a float and a numpy.float64 both print as a real
\* numeral, an int as an integer numeral
JsonValue(x) ==
    IF x.ty = "str" THEN [json |-> "string", v |-> x.v]
    ELSE IF x.ty = "int" THEN [json |-> "integer", v |-> x.v]
    ELSE [json |-> "real", v |-> x.v]

\* a JSON value parsed: a real numeral is a float, an integer numeral an int
PyValue(j) ==
    IF j.json = "string" THEN Str(j.v)
    ELSE IF j.json = "integer" THEN PyInt(j.v)
    ELSE PyFloatVal(j.v)

PointFields == {"open", "high", "low", "close", "volume"}

\* a serialisation that leaves the company information out
DumpsWithoutInfo(rec) ==
    [ticker |-> rec.ticker,
     source |-> rec.source,
     last_updated |-> rec.last_updated,
     prices |-> [i \in 1..Len(rec.prices) |->
                    [f \in PointFields |-> JsonValue(rec.prices[i][f])] @@
                    ("date" :> rec.prices[i].date)],
     company_info |-> Absent]

\* the JSON text of a record (json.dumps)
Dumps(rec) ==
    [ticker |-> rec.ticker,
     source |-> rec.source,
     last_updated |-> rec.last_updated,
     prices |-> [i \in 1..Len(rec.prices) |->
                    [f \in PointFields |-> JsonValue(rec.prices[i][f])] @@
                    ("date" :> rec.prices[i].date)],
     company_info |-> IF rec.company_info = Absent THEN Absent
                      ELSE [k \in DOMAIN rec.company_info |->
                               JsonValue(rec.company_info[k])]]

\* the record a JSON text parses to (json.loads)
Loads(js) ==
    [kind |-> "record",
     ticker |-> js.ticker,
     source |-> js.source,
     last_updated |-> js.last_updated,
     prices |-> [i \in 1..Len(js.prices) |->
                    [f \in PointFields |-> PyValue(js.prices[i][f])] @@
                    ("date" :> js.prices[i].date)],
     company_info |-> IF js.company_info = Absent THEN Absent
                      ELSE [k \in DOMAIN js.company_info |->
                               PyValue(js.company_info[k])]]

\* Python ==: numbers compare by value whatever their type
ValueEq(x, y) ==
    IF x.ty = "str" \/ y.ty = "str" THEN x = y ELSE x.v = y.v

\* a == b for two records (dict equality)
Equivalent(a, b) ==
    /\ a.ticker = b.ticker /\ a.source = b.source /\ a.last_updated = b.last_updated
    /\ Len(a.prices) = Len(b.prices)
    /\ \A i \in 1..Len(a.prices) :
          /\ a.prices[i].date = b.prices[i].date
          /\ \A f \in PointFields : ValueEq(a.prices[i][f], b.prices[i][f])
    /\ (a.company_info = Absent) = (b.company_info = Absent)
    /\ a.company_info # Absent =>
          /\ DOMAIN a.company_info = DOMAIN b.company_info
          /\ \A k \in DOMAIN a.company_info :
                ValueEq(a.company_info[k], b.company_info[k])

(***************************************************************************)
(* The cache directory.                                                    *)
(***************************************************************************)
Tickers == {"AAPL", "aapl", "MSFT"}

\* str.lower()
Lower(t) ==
    CASE t = "AAPL" -> "aapl"
      [] t = "aapl" -> "aapl"
      [] t = "MSFT" -> "msft"

\* the file named from the ticker as typed, without the case folding
CacheFileAsTyped(t) == t \o "_data.json"

\* line 48: the path of the ticker's cache file inside cache_dir
CacheFile(t) == Lower(t) \o "_data.json"

CacheFiles == {CacheFile(t) : t \in Tickers}

\* A file is a sequence of blocks.  json.dump hands the text to a buffered
\* writer, which writes it to the file in pieces: the model writes every
\* record as two blocks, head and tail.  A block never written after the
\* file was truncated and extended is a Hole.
Hole == [js |-> Absent, part |-> 0]
NoFile == [exists |-> FALSE, mtime |-> 0, blocks |-> <<>>]

\* the blocks json.dump writes for a record
Serialize(rec) == <<[js |-> Dumps(rec), part |-> 1], [js |-> Dumps(rec), part |-> 2]>>

\* The head of a text runs up to the end of the prices, the tail holds the
\* company information.  Two texts of the same layout (same source, as many
\* prices, the same information keys) have their pieces at the same offsets.
Layout(js) ==
    <<js.source, Len(js.prices),
      IF js.company_info = Absent THEN {} ELSE DOMAIN js.company_info>>

\* the text made of the head of one text and the tail of another
Splice(head, tail) == [head EXCEPT !.company_info = tail.company_info]

\* json.load of a file's blocks: the record, or Raised (JSONDecodeError) for
\* an empty or truncated file and for pieces that do not fit; the head of one
\* text followed by the tail of another of the same layout is a JSON text
\* again and loads as a record
Deserialize(blocks) ==
    IF /\ Len(blocks) = 2
       /\ blocks[1].part = 1
       /\ blocks[2].part = 2
       /\ Layout(blocks[1].js) = Layout(blocks[2].js)
    THEN Loads(Splice(blocks[1].js, blocks[2].js))
    ELSE Raised

\* a write of block b at position i of a file
WriteAt(blocks, i, b) ==
    [j \in 1..(IF Len(blocks) > i THEN Len(blocks) ELSE i) |->
        IF j = i THEN b ELSE IF j <= Len(blocks) THEN blocks[j] ELSE Hole]

(***************************************************************************)
(* State.                                                                  *)
(***************************************************************************)
\* the callers of get_stock_data on one provider
Procs == {1, 2}

VARIABLES
    clock,              \* time.time()
    files,              \* cache_dir: path -> file
    alpha_vantage_key,  \* self.alpha_vantage_key
    cache_duration,     \* self.cache_duration
    pc,                 \* where each caller is in get_stock_data
    ticker,             \* the argument of the call
    response,           \* the local response / stock: what the last remote call gave
    data,               \* the local data (processed_data inside the primary)
    result,             \* what the call returned, Raised if it raised
    calls,              \* the remote calls the call has issued, in order
    fresh,              \* the call found file_age < cache_duration
    served,             \* the blocks of the cache file the call returned
    wrote,              \* how the call's cache write went: "no", "ok", "failed"
    before,             \* the cache file as it was when the call opened it to write
    time_series,        \* a time-series mapping handed to the normalisation
    prices              \* what the normalisation made of it

config == <<alpha_vantage_key, cache_duration>>
locals == <<ticker, response, data, result, calls, fresh, served, wrote, before>>
norm == <<time_series, prices>>
vars == <<clock, files, config, pc, locals, norm>>

\* the API keys and cache durations a provider is constructed with
ApiKeys == {"", "demo"}
CacheDurations == {2}

\* no normalisation asked for yet
NoPrices == [kind |-> "none", items |-> <<>>]

InitProvider ==
    /\ clock = 0
    /\ files = [f \in CacheFiles |-> NoFile]
    /\ alpha_vantage_key \in ApiKeys
    /\ cache_duration \in CacheDurations
    /\ pc = [p \in Procs |-> "idle"]
    /\ ticker = [p \in Procs |-> ""]
    /\ response = [p \in Procs |-> Absent]
    /\ data = [p \in Procs |-> None]
    /\ result = [p \in Procs |-> None]
    /\ calls = [p \in Procs |-> <<>>]
    /\ fresh = [p \in Procs |-> FALSE]
    /\ served = [p \in Procs |-> Absent]
    /\ wrote = [p \in Procs |-> "no"]
    /\ before = [p \in Procs |-> NoFile]

Init ==
    /\ InitProvider
    /\ time_series = <<>>
    /\ prices = NoPrices

(***************************************************************************)
(* get_stock_data, step by step.                                           *)
(***************************************************************************)
\* the step of caller p to label l
Goto(p, l) == pc' = [pc EXCEPT ![p] = l]

\* a caller enters get_stock_data(t)
Call(p, t) ==
    /\ pc[p] = "idle"
    /\ Goto(p, "exists")
    /\ ticker' = [ticker EXCEPT ![p] = t]
    /\ UNCHANGED <<clock, files, config, response, data, result, calls, fresh, served,
                   wrote, before, norm>>

\* line 51: os.path.exists(cache_file)
Exists(p) ==
    /\ pc[p] = "exists"
    /\ Goto(p, IF files[CacheFile(ticker[p])].exists THEN "getmtime" ELSE "time_series")
    /\ UNCHANGED <<clock, files, config, locals, norm>>

\* the boundary age taken for fresh
IsFreshInclusive(mtime) == clock - mtime <= cache_duration

\* line 53: file_age < self.cache_duration, for a file modified at mtime
IsFresh(mtime) == clock - mtime < cache_duration

\* lines 52-53: os.path.getmtime raises for a file that is gone, and nothing
\* catches it here
GetMTime(p) ==
    LET file == files[CacheFile(ticker[p])]
    IN  /\ pc[p] = "getmtime"
        /\ IF file.exists
           THEN /\ Goto(p, IF IsFresh(file.mtime) THEN "read" ELSE "time_series")
                /\ fresh' = [fresh EXCEPT ![p] = IsFresh(file.mtime)]
                /\ UNCHANGED result
           ELSE /\ Goto(p, "done")
                /\ result' = [result EXCEPT ![p] = Raised]
                /\ UNCHANGED fresh
        /\ UNCHANGED <<clock, files, config, ticker, response, data, calls, served,
                       wrote, before, norm>>

\* what the read of a fresh file gives: the record, or Raised when open() or
\* json.load raises
ReadOutcome(file) == IF file.exists THEN Deserialize(file.blocks) ELSE Raised

\* a read whose record is dropped: the call goes on to the sources
ReadCacheDropped(p) ==
    /\ pc[p] = "read"
    /\ Goto(p, "time_series")
    /\ UNCHANGED <<clock, files, config, locals, norm>>

\* a cache hit that touches the file: the modification time moves to the
\* time of the read
ReadCacheTouching(p) ==
    LET file == files[CacheFile(ticker[p])]
    IN  /\ pc[p] = "read"
        /\ IF ReadOutcome(file) # Raised
           THEN /\ Goto(p, "done")
                /\ result' = [result EXCEPT ![p] = ReadOutcome(file)]
                /\ served' = [served EXCEPT ![p] =
                                 [kind |-> "blocks", blocks |-> file.blocks]]
                /\ files' = [files EXCEPT ![CacheFile(ticker[p])].mtime = clock]
           ELSE /\ Goto(p, "time_series")
                /\ UNCHANGED <<result, served, files>>
        /\ UNCHANGED <<clock, config, ticker, response, data, calls, fresh,
                       wrote, before, norm>>

\* a read without the except clause: the failure of open or json.load
\* escapes to the caller
ReadCacheUncaught(p) ==
    LET file == files[CacheFile(ticker[p])]
    IN  /\ pc[p] = "read"
        /\ Goto(p, "done")
        /\ result' = [result EXCEPT ![p] = ReadOutcome(file)]
        /\ served' = [served EXCEPT ![p] =
                         IF ReadOutcome(file) # Raised
                         THEN [kind |-> "blocks", blocks |-> file.blocks]
                         ELSE Absent]
        /\ UNCHANGED <<clock, files, config, ticker, response, data, calls, fresh,
                       wrote, before, norm>>

\* lines 55-59: return the cached record, or log and go on to the sources
ReadCache(p) ==
    LET file == files[CacheFile(ticker[p])]
    IN  /\ pc[p] = "read"
        /\ IF ReadOutcome(file) # Raised
           THEN /\ Goto(p, "done")
                /\ result' = [result EXCEPT ![p] = ReadOutcome(file)]
                /\ served' = [served EXCEPT ![p] =
                                 [kind |-> "blocks", blocks |-> file.blocks]]
           ELSE /\ Goto(p, "time_series")
                /\ UNCHANGED <<result, served>>
        /\ UNCHANGED <<clock, files, config, ticker, response, data, calls, fresh,
                       wrote, before, norm>>

\* the key test the wrong way round
NoKeyInverted == alpha_vantage_key # ""

\* line 89: not self.alpha_vantage_key
NoKey == alpha_vantage_key = ""

\* the request sent whether or not there is a key
TimeSeriesRequestAnyway(p) ==
    /\ pc[p] = "time_series"
    /\ \E r \in TimeSeriesResponses :
          /\ calls' = [calls EXCEPT ![p] = Append(@, "time_series")]
          /\ response' = [response EXCEPT ![p] = r]
          /\ Goto(p, "time_series_received")
    /\ UNCHANGED <<clock, files, config, ticker, data, result, fresh, served, wrote,
                   before, norm>>

\* lines 62, 89-103: without a key the primary returns None at once;
\* otherwise it sends the TIME_SERIES_DAILY request
TimeSeriesRequest(p) ==
    /\ pc[p] = "time_series"
    /\ IF NoKey
       THEN /\ Goto(p, "yahoo")
            /\ UNCHANGED <<response, calls>>
       ELSE \E r \in TimeSeriesResponses :
               /\ calls' = [calls EXCEPT ![p] = Append(@, "time_series")]
               /\ response' = [response EXCEPT ![p] = r]
               /\ Goto(p, "time_series_received")
    /\ UNCHANGED <<clock, files, config, ticker, data, result, fresh, served, wrote,
                   before, norm>>

\* a failed time-series call asked again
TimeSeriesReceivedRetrying(p) ==
    /\ pc[p] = "time_series_received"
    /\ data' = [data EXCEPT ![p] = TimeSeriesOutcome(ticker[p], response[p])]
    /\ Goto(p, IF TimeSeriesOutcome(ticker[p], response[p]) = None
               THEN "time_series" ELSE "overview")
    /\ UNCHANGED <<clock, files, config, ticker, response, result, calls, fresh, served,
                   wrote, before, norm>>

\* lines 105-127, 144-146: processed_data, or the failure of the primary
TimeSeriesReceived(p) ==
    /\ pc[p] = "time_series_received"
    /\ data' = [data EXCEPT ![p] = TimeSeriesOutcome(ticker[p], response[p])]
    /\ Goto(p, IF TimeSeriesOutcome(ticker[p], response[p]) = None
               THEN "yahoo" ELSE "overview")
    /\ UNCHANGED <<clock, files, config, ticker, response, result, calls, fresh, served,
                   wrote, before, norm>>

\* lines 130-136: the OVERVIEW request
OverviewRequest(p) ==
    /\ pc[p] = "overview"
    /\ \E r \in OverviewResponses :
          /\ calls' = [calls EXCEPT ![p] = Append(@, "overview")]
          /\ response' = [response EXCEPT ![p] = r]
    /\ Goto(p, "overview_received")
    /\ UNCHANGED <<clock, files, config, ticker, data, result, fresh, served, wrote,
                   before, norm>>

\* the secondary asked after the primary whatever the primary gave
OverviewReceivedFailingOver(p) ==
    /\ pc[p] = "overview_received"
    /\ data' = [data EXCEPT ![p] = OverviewOutcome(data[p], response[p])]
    /\ Goto(p, "yahoo")
    /\ UNCHANGED <<clock, files, config, ticker, response, result, calls, fresh, served,
                   wrote, before, norm>>

\* lines 137-146, 65: company_info and the return of the primary
OverviewReceived(p) ==
    /\ pc[p] = "overview_received"
    /\ data' = [data EXCEPT ![p] = OverviewOutcome(data[p], response[p])]
    /\ Goto(p, IF OverviewOutcome(data[p], response[p]) = None THEN "yahoo" ELSE "open")
    /\ UNCHANGED <<clock, files, config, ticker, response, result, calls, fresh, served,
                   wrote, before, norm>>

\* lines 65-67, 160-161: the failover: one call for history and info
YahooRequest(p) ==
    /\ pc[p] = "yahoo"
    /\ \E y \in YahooResults :
          /\ calls' = [calls EXCEPT ![p] = Append(@, "yahoo")]
          /\ response' = [response EXCEPT ![p] = y]
    /\ Goto(p, "yahoo_received")
    /\ UNCHANGED <<clock, files, config, ticker, data, result, fresh, served, wrote,
                   before, norm>>

\* the cache file opened for writing before the look at data: a failure of
\* both sources leaves an empty file
YahooReceivedOpening(p) ==
    /\ pc[p] = "yahoo_received"
    /\ data' = [data EXCEPT ![p] = YahooOutcome(ticker[p], response[p])]
    /\ IF YahooOutcome(ticker[p], response[p]) = None
       THEN /\ Goto(p, "done")
            /\ result' = [result EXCEPT ![p] = None]
            /\ files' = [files EXCEPT ![CacheFile(ticker[p])] =
                            [exists |-> TRUE, mtime |-> clock, blocks |-> <<>>]]
       ELSE /\ Goto(p, "open")
            /\ UNCHANGED <<result, files>>
    /\ UNCHANGED <<clock, config, ticker, response, calls, fresh, served, wrote,
                   before, norm>>

\* lines 163-202, 70, 77: the record of the secondary; without data the
\* call returns None
YahooReceived(p) ==
    /\ pc[p] = "yahoo_received"
    /\ data' = [data EXCEPT ![p] = YahooOutcome(ticker[p], response[p])]
    /\ IF YahooOutcome(ticker[p], response[p]) = None
       THEN /\ Goto(p, "done")
            /\ result' = [result EXCEPT ![p] = None]
       ELSE /\ Goto(p, "open")
            /\ UNCHANGED result
    /\ UNCHANGED <<clock, files, config, ticker, response, calls, fresh, served, wrote,
                   before, norm>>

\* lines 74-77: the call returns data after its cache write ended as how
Finish(p, how) ==
    /\ Goto(p, "done")
    /\ result' = [result EXCEPT ![p] = data[p]]
    /\ wrote' = [wrote EXCEPT ![p] = how]
    /\ before' = [before EXCEPT ![p] = NoFile]

\* the file right after open(cache_file, 'w')
Truncated == [exists |-> TRUE, mtime |-> clock, blocks |-> <<>>]

\* line 72: open(cache_file, 'w') truncates the file, or raises OSError
OpenWrite(p) ==
    /\ pc[p] = "open"
    /\ \/ /\ files' = [files EXCEPT ![CacheFile(ticker[p])] = Truncated]
          /\ before' = [before EXCEPT ![p] = files[CacheFile(ticker[p])]]
          /\ Goto(p, "head")
          /\ UNCHANGED <<result, wrote>>
       \/ /\ Finish(p, "failed")
          /\ UNCHANGED files
    /\ UNCHANGED <<clock, config, ticker, response, data, calls, fresh, served, norm>>

\* the file after the write of block i of the record
Written(file, rec, i) ==
    [exists |-> TRUE, mtime |-> clock, blocks |-> WriteAt(file.blocks, i, Serialize(rec)[i])]

\* line 73: json.dump, first piece of the text; the write may raise OSError
WriteHead(p) ==
    /\ pc[p] = "head"
    /\ \/ /\ files' = [files EXCEPT ![CacheFile(ticker[p])] = Written(@, data[p], 1)]
          /\ Goto(p, "tail")
          /\ UNCHANGED <<result, wrote, before>>
       \/ /\ Finish(p, "failed")
          /\ UNCHANGED files
    /\ UNCHANGED <<clock, config, ticker, response, data, calls, fresh, served, norm>>

\* lines 73-77: json.dump, rest of the text, close and return
WriteTail(p) ==
    /\ pc[p] = "tail"
    /\ \/ /\ files' = [files EXCEPT ![CacheFile(ticker[p])] = Written(@, data[p], 2)]
          /\ Finish(p, "ok")
       \/ /\ Finish(p, "failed")
          /\ UNCHANGED files
    /\ UNCHANGED <<clock, config, ticker, response, data, calls, fresh, served, norm>>

\* the caller has its result; the locals of the call are gone
Return(p) ==
    /\ pc[p] = "done"
    /\ Goto(p, "idle")
    /\ ticker' = [ticker EXCEPT ![p] = ""]
    /\ response' = [response EXCEPT ![p] = Absent]
    /\ data' = [data EXCEPT ![p] = None]
    /\ result' = [result EXCEPT ![p] = None]
    /\ calls' = [calls EXCEPT ![p] = <<>>]
    /\ fresh' = [fresh EXCEPT ![p] = FALSE]
    /\ served' = [served EXCEPT ![p] = Absent]
    /\ wrote' = [wrote EXCEPT ![p] = "no"]
    /\ before' = [before EXCEPT ![p] = NoFile]
    /\ UNCHANGED <<clock, files, config, norm>>

(***************************************************************************)
(* The environment.                                                        *)
(***************************************************************************)
\* time passes
Tick ==
    /\ clock < MaxClock
    /\ clock' = clock + 1
    /\ UNCHANGED <<files, config, pc, locals, norm>>

\* a caller holds the file open for writing
OpenForWrite(f) == \E p \in Procs : pc[p] \in {"head", "tail"} /\ CacheFile(ticker[p]) = f

\* another party removes a cache file that no caller is writing
Remove(f) ==
    /\ files[f].exists
    /\ ~OpenForWrite(f)
    /\ files' = [files EXCEPT ![f] = NoFile]
    /\ UNCHANGED <<clock, config, pc, locals, norm>>

Step(p) ==
    \/ \E t \in Tickers : Call(p, t)
    \/ Exists(p)
    \/ GetMTime(p)
    \/ ReadCache(p)
    \/ TimeSeriesRequest(p)
    \/ TimeSeriesReceived(p)
    \/ OverviewRequest(p)
    \/ OverviewReceived(p)
    \/ YahooRequest(p)
    \/ YahooReceived(p)
    \/ OpenWrite(p)
    \/ WriteHead(p)
    \/ WriteTail(p)
    \/ Return(p)

\* one caller at a time: the calls of the provider follow one another
Next ==
    \/ Step(1)
    \/ Tick
    \/ \E f \in CacheFiles : Remove(f)

Spec == Init /\ [][Next]_vars

(***************************************************************************)
(* The calls of one caller alone, each step of a call taken as soon as it  *)
(* can be: the remote calls return and the file operations complete.       *)
(***************************************************************************)
NextCalls == Step(1)

SpecCalls == Init /\ [][NextCalls]_vars /\ WF_vars(Step(1))

(***************************************************************************)
(* Concurrent callers of one provider that has no API key: the requests    *)
(* of the primary are never sent, every call goes from the cache to the    *)
(* secondary.  The clock stands still, so every file written stays fresh.  *)
(***************************************************************************)
InitConcurrent ==
    /\ Init
    /\ alpha_vantage_key = ""

StepConcurrent(p) ==
    \/ \E t \in Tickers : Call(p, t)
    \/ Exists(p)
    \/ GetMTime(p)
    \/ ReadCache(p)
    \/ TimeSeriesRequest(p)
    \/ YahooRequest(p)
    \/ YahooReceived(p)
    \/ OpenWrite(p)
    \/ WriteHead(p)
    \/ WriteTail(p)
    \/ Return(p)

NextConcurrent == \E p \in Procs : StepConcurrent(p)

SpecConcurrent == InitConcurrent /\ [][NextConcurrent]_vars

(***************************************************************************)
(* The normalisation of the primary source on its own: a time-series       *)
(* mapping arrives and _process_alpha_vantage_time_series is applied.      *)
(***************************************************************************)
\* the values of one day: complete, with a volume int() rejects, with keys
\* missing
ValueOptions == {GoodValues, BadVolume, ("4. close" :> DecText(11))}

Entries == [date : DateStrings, values : ValueOptions]

\* the mappings of at most MaxRows days, in every iteration order; a mapping
\* has each date key once
Payloads ==
    UNION { { ts \in [1..n -> Entries] :
                \A i, j \in 1..n : i # j => ts[i].date # ts[j].date } : n \in 0..MaxRows }

\* a payload arrives
Receive(ts) ==
    /\ time_series' = ts
    /\ prices' = NoPrices
    /\ UNCHANGED <<clock, files, config, pc, locals>>

\* lines 126, 204-227
Normalise ==
    /\ prices = NoPrices
    /\ prices' = IF ProcessRaises(time_series)
                 THEN [kind |-> "raised", items |-> <<>>]
                 ELSE [kind |-> "list", items |-> ProcessTimeSeries(time_series)]
    /\ UNCHANGED <<clock, files, config, pc, locals, time_series>>

NextNorm ==
    \/ \E ts \in Payloads : Receive(ts)
    \/ Normalise

SpecNorm == Init /\ [][NextNorm]_vars

(***************************************************************************)
(* Properties.                                                             *)
(***************************************************************************)
\* the cache file of the call of caller p
MyFile(p) == files[CacheFile(ticker[p])]

\* caller p takes a step
Acts(p) == pc'[p] # pc[p]

\* the labels at which the call writes its cache file
WriteLabels == {"open", "head", "tail"}

\* the labels of a call that has passed the cache and gone on to the sources
PastPrimaryRequest ==
    {"time_series_received", "overview", "overview_received", "yahoo", "yahoo_received",
     "open", "head", "tail"}

\* the remote call c is among those the call of p has issued
Called(p, c) == \E i \in 1..Len(calls[p]) : calls[p][i] = c

\* C1 as stated: a call that found its cache file fresh issues no remote call
\* and returns what the file holds.
C1_FreshCacheServed ==
    \A p \in Procs :
        fresh[p] => /\ calls[p] = <<>>
                    /\ pc[p] = "done" => served[p] # Absent

\* C1, amended: a call that found its cache file fresh and whose read of the
\* file deserialises returns exactly the deserialised content, has issued no
\* remote call (time series, overview, secondary) and leaves the files alone.
C1_ReadableFreshCacheServed ==
    /\ [](\A p \in Procs : pc[p] = "read" => fresh[p] /\ calls[p] = <<>>)
    /\ [][\A p \in Procs :
            (pc[p] = "read" /\ Acts(p) /\ ReadOutcome(MyFile(p)) # Raised)
            => /\ pc'[p] = "done"
               /\ result'[p] = Deserialize(MyFile(p).blocks)
               /\ calls'[p] = <<>>
               /\ files' = files]_vars

C1_Witness ==
    /\ pc[1] = "done" /\ fresh[1] /\ served[1] # Absent
    /\ calls[1] = <<>> /\ result[1].kind = "record"

\* the secondary source failed: a call raised or the history is empty
YahooFails(y) == y.raises # "none" \/ y.history = <<>>

\* C2: the cache is written only by a call that holds data; when the secondary
\* fails after the primary, the call returns None and no file changes, neither
\* content nor modification time, at that step or at any earlier step of it.
C2_FailedFetchLeavesCache ==
    /\ [](\A p \in Procs : pc[p] \in WriteLabels => data[p].kind = "record")
    /\ [][\A p \in Procs : (Acts(p) /\ pc[p] \notin WriteLabels) => files' = files]_vars
    /\ [][\A p \in Procs :
            (pc[p] = "yahoo_received" /\ Acts(p) /\ YahooFails(response[p]))
            => pc'[p] = "done" /\ result'[p] = None /\ wrote'[p] = "no"]_vars

C2_Witness ==
    /\ pc[1] = "done" /\ result[1] = None /\ calls[1] = <<"time_series", "yahoo">>
    /\ MyFile(1).exists /\ Deserialize(MyFile(1).blocks) # Raised

\* C3 as stated: no call of get_stock_data ends by raising.
C3_NoExceptionEscapes == \A p \in Procs : result[p] # Raised

\* the failures of the time-series call that the claim lists: a status outside
\* 2xx, or status 200 with an error key or without time-series entries
ListedPrimaryFailure(r) ==
    /\ r.kind = "response"
    /\ \/ r.status_code \notin 200..299
       \/ /\ r.status_code = 200
          /\ r.json # Raised
          /\ \/ DOMAIN r.json \cap {"Error Message", "Information", "Note"} # {}
             \/ Get(r.json, "Time Series (Daily)", <<>>) = <<>>

\* the record is one of the primary source
FromPrimary(d) == d.kind = "record" /\ d.source = "alphavantage"

\* C4: after a listed failure of the time-series call the call goes on to the
\* secondary source with no data, and a call that has gone to the secondary
\* neither holds, returns nor writes a record of the primary source.
C4_PrimaryFailureFailsOver ==
    /\ [][\A p \in Procs :
            (pc[p] = "time_series_received" /\ Acts(p) /\ ListedPrimaryFailure(response[p]))
            => pc'[p] = "yahoo" /\ data'[p] = None]_vars
    /\ [](\A p \in Procs :
            (pc[p] = "yahoo" \/ Called(p, "yahoo"))
            => ~FromPrimary(data[p]) /\ ~FromPrimary(result[p]))
    /\ [][\A p \in Procs :
            (Acts(p) /\ Called(p, "yahoo") /\ files' # files)
            => \A i \in 1..Len(MyFile(p).blocks') :
                  (i > Len(MyFile(p).blocks) \/ MyFile(p).blocks'[i] # MyFile(p).blocks[i])
                  => MyFile(p).blocks'[i].js.source = "yahoo"]_vars

C4_Witness ==
    /\ pc[1] = "done" /\ calls[1] = <<"time_series", "yahoo">>
    /\ result[1].kind = "record" /\ result[1].source = "yahoo" /\ wrote[1] = "ok"

\* C5 as stated: every secondary call of a call comes after a primary call of
\* the same call.
C5_PrimaryCallBeforeSecondary ==
    \A p \in Procs : \A i \in 1..Len(calls[p]) :
        calls[p][i] = "yahoo" => \E j \in 1..(i - 1) : calls[p][j] = "time_series"

\* C5, amended: with an API key configured, a call that goes on to the sources
\* issues the time-series call first, and every secondary call comes after it.
C5_PrimaryCallBeforeSecondaryWithKey ==
    \A p \in Procs :
        alpha_vantage_key # "" =>
            /\ \A i \in 1..Len(calls[p]) :
                  calls[p][i] = "yahoo" => \E j \in 1..(i - 1) : calls[p][j] = "time_series"
            /\ pc[p] \in PastPrimaryRequest => calls[p] # <<>> /\ calls[p][1] = "time_series"

C5_Witness ==
    /\ alpha_vantage_key # "" /\ ~fresh[1]
    /\ calls[1] = <<"time_series", "yahoo">>

\* C6: without an API key no call issues a time-series or an overview request;
\* the call goes from the cache straight to the secondary source, and the
\* missing key does not make it raise.
C6_NoKeyNoPrimaryRequest ==
    alpha_vantage_key = "" =>
        \A p \in Procs :
            /\ ~Called(p, "time_series") /\ ~Called(p, "overview")
            /\ pc[p] \notin {"time_series_received", "overview", "overview_received"}
            /\ pc[p] \in {"yahoo_received"} \cup WriteLabels => calls[p] = <<"yahoo">>
            /\ calls[p] # <<>> => result[p] # Raised

C6_Witness ==
    /\ alpha_vantage_key = "" /\ pc[1] = "done" /\ calls[1] = <<"yahoo">>
    /\ result[1].kind = "record"

\* the call of p fetched a record from a source
LiveSuccess(p) == pc[p] = "done" /\ result[p].kind = "record" /\ served[p] = Absent

Descending(list) ==
    \A i \in 1..(Len(list) - 1) : ~StrLess(list[i].date, list[i + 1].date)

\* C8 as stated: the prices of every record a call returns are sorted by date,
\* most recent first.
C8_ReturnedPricesDescending ==
    \A p \in Procs :
        (pc[p] = "done" /\ result[p].kind = "record") => Descending(result[p].prices)

\* C9: the list the normalisation returns has exactly one point per date key
\* of the payload and is ordered by date string, most recent first, whatever
\* the order of the payload.
C9_NormalisedDescending ==
    prices.kind = "list" =>
        /\ Len(prices.items) = Len(time_series)
        /\ \A e \in 1..Len(time_series) :
              Cardinality({i \in 1..Len(prices.items) :
                              prices.items[i].date = time_series[e].date}) = 1
        /\ \A i, j \in 1..Len(prices.items) :
              i < j => StrLess(prices.items[j].date, prices.items[i].date)

C9_Witness ==
    /\ prices.kind = "list"
    /\ Len(time_series) = 2
    /\ time_series[1].date = "2024-01-02" /\ time_series[2].date = "2024-01-03"
    /\ prices.items[1].date = "2024-01-03" /\ prices.items[2].date = "2024-01-02"

\* C10: when the secondary answers with an empty history, the call returns
\* None at that step, builds no record and writes nothing.
C10_EmptyHistoryIsAbsent ==
    [][\A p \in Procs :
         (pc[p] = "yahoo_received" /\ Acts(p)
            /\ response[p].raises = "none" /\ response[p].history = <<>>)
         => /\ pc'[p] = "done"
            /\ result'[p] = None
            /\ data'[p] = None
            /\ wrote'[p] = "no"
            /\ files' = files]_vars

C10_Witness ==
    /\ pc[1] = "done" /\ result[1] = None /\ wrote[1] = "no"
    /\ Called(1, "yahoo")
    /\ response[1].raises = "none" /\ response[1].history = <<>>

\* another caller is in the middle of writing the cache file of caller p
WriterAtWork(p) ==
    \E q \in Procs \ {p} :
        /\ pc[q] \in {"head", "tail"}
        /\ CacheFile(ticker[q]) = CacheFile(ticker[p])

\* the record is what one of the texts that left blocks in the file loads as:
\* a record that one json.dump wrote completely
WrittenByOne(rec, blocks) ==
    \E i \in 1..Len(blocks) : blocks[i].js # Absent /\ rec = Loads(blocks[i].js)

\* C11 as stated: a call that reads its cache file while another call is in
\* the middle of writing it either goes on to its own live fetch or returns a
\* record that one writer wrote completely; it never returns a mixture.
C11_ReaderSeesCompleteRecord ==
    [][\A p \in Procs :
         (pc[p] = "read" /\ Acts(p) /\ WriterAtWork(p))
         => \/ pc'[p] = "time_series"
            \/ /\ pc'[p] = "done"
               /\ result'[p].kind = "record"
               /\ WrittenByOne(result'[p], MyFile(p).blocks)]_vars

\* the calls that have completed a successful fetch and cache write on file f
Writers(f) ==
    {p \in Procs : pc[p] = "done" /\ wrote[p] = "ok" /\ CacheFile(ticker[p]) = f}

\* C12 as stated: once two successful fetches of one ticker have completed,
\* the cache file holds exactly the text one of them wrote.
C12_LastWriterWins ==
    \A f \in CacheFiles :
        (Cardinality(Writers(f)) >= 2 /\ ~OpenForWrite(f))
        => \E p \in Writers(f) : files[f].blocks = Serialize(result[p])

\* the call of p is under way: it has a ticker and a cache file
Busy(p) == pc[p] # "idle"

\* C13: the cache file of a call is named from the case-folded ticker alone,
\* so two calls share a file exactly when their tickers differ at most in
\* letter case; a step of a call changes no file but its own, decides on the
\* cache from its own file only, and leaves the locals and the result of every
\* other call as they are.
C13_TickersIndependent ==
    /\ [](\A p, q \in Procs :
            (Busy(p) /\ Busy(q))
            => (CacheFile(ticker[p]) = CacheFile(ticker[q])
                   <=> Lower(ticker[p]) = Lower(ticker[q])))
    /\ [][\A p \in Procs :
            Acts(p) =>
               /\ \A f \in CacheFiles :
                     (~Busy(p) \/ f # CacheFile(ticker[p])) => files'[f] = files[f]
               /\ \A q \in Procs \ {p} :
                     /\ pc'[q] = pc[q] /\ ticker'[q] = ticker[q]
                     /\ data'[q] = data[q] /\ result'[q] = result[q]
                     /\ calls'[q] = calls[q] /\ served'[q] = served[q]]_vars
    /\ [][\A p \in Procs :
            /\ (pc[p] = "exists" /\ Acts(p))
               => (pc'[p] = "getmtime" <=> MyFile(p).exists)
            /\ (pc[p] = "read" /\ Acts(p) /\ pc'[p] = "done")
               => result'[p] = Deserialize(MyFile(p).blocks)]_vars

\* a call for "aapl" is served the record written for "AAPL" while the other
\* caller is in the middle of writing the file of "MSFT"
C13_Witness ==
    /\ pc[1] = "done" /\ ticker[1] = "aapl" /\ served[1] # Absent
    /\ result[1].kind = "record" /\ result[1].ticker = "AAPL"
    /\ pc[2] = "tail" /\ ticker[2] = "MSFT"
    /\ files[CacheFile("MSFT")] # files[CacheFile("aapl")]

\* C14: the age check comes before any read of the file: a file whose age is
\* the duration or more sends the call on to the sources, only a call that
\* found its file fresh reads or returns its content, and a call that did
\* not returns what the sources gave, None when both failed.
C14_StaleNeverServed ==
    /\ [][\A p \in Procs :
            (pc[p] = "getmtime" /\ Acts(p) /\ MyFile(p).exists
               /\ clock - MyFile(p).mtime >= cache_duration)
            => pc'[p] = "time_series" /\ ~fresh'[p]]_vars
    /\ [](\A p \in Procs : (pc[p] = "read" \/ served[p] # Absent) => fresh[p])
    /\ [](\A p \in Procs :
            (pc[p] = "done" /\ ~fresh[p] /\ result[p] # Raised)
            => /\ served[p] = Absent
               /\ result[p] = data[p]
               /\ (Called(p, "yahoo") /\ YahooFails(response[p])) => result[p] = None)

\* both sources failed a call whose cache file, of age exactly the duration,
\* holds a record: the call returned None
C14_Witness ==
    /\ pc[1] = "done" /\ ~fresh[1] /\ result[1] = None
    /\ calls[1] = <<"time_series", "yahoo">>
    /\ MyFile(1).exists /\ Deserialize(MyFile(1).blocks) # Raised
    /\ clock - MyFile(1).mtime = cache_duration

\* the orders in which a call that has reached the secondary issued its calls
FailoverOrders ==
    {<<"yahoo">>, <<"time_series", "yahoo">>, <<"time_series", "overview", "yahoo">>}

\* C15 as stated: a call that found its file fresh but unreadable and fetched
\* a record from a source ends with a cache file that deserialises to a
\* record equivalent to the one it returns.
C15_UnreadableFileOverwritten ==
    [][\A p \in Procs :
         (Acts(p) /\ pc'[p] = "done" /\ fresh[p] /\ served'[p] = Absent
            /\ result'[p].kind = "record")
         => /\ ReadOutcome(MyFile(p)') # Raised
            /\ Equivalent(ReadOutcome(MyFile(p)'), result'[p])]_vars

\* C15, amended: a fresh file whose read fails sends the call on to the
\* sources with nothing returned, nothing raised and no file changed; the call
\* then asks the primary before the secondary and returns what they gave; and
\* when its cache write completes without error the file deserialises to a
\* record equivalent to the returned one.
C15_UnreadableFileFallsThrough ==
    /\ [][\A p \in Procs :
            (pc[p] = "read" /\ Acts(p) /\ ReadOutcome(MyFile(p)) = Raised)
            => /\ pc'[p] = "time_series"
               /\ result'[p] = result[p] /\ result'[p] # Raised
               /\ data'[p] = None /\ calls'[p] = <<>>
               /\ files' = files]_vars
    /\ [](\A p \in Procs :
            (fresh[p] /\ served[p] = Absent)
            => /\ Called(p, "yahoo") => calls[p] \in FailoverOrders
               /\ pc[p] = "done" => result[p] = data[p])
    /\ [][\A p \in Procs :
            (pc[p] = "tail" /\ Acts(p) /\ fresh[p] /\ wrote'[p] = "ok")
            => /\ ReadOutcome(MyFile(p)') # Raised
               /\ Equivalent(ReadOutcome(MyFile(p)'), result'[p])
               /\ MyFile(p)'.mtime = clock']_vars

\* a call found its file fresh, could not read it, fetched a record from the
\* primary and wrote it over the file
C15_Witness ==
    /\ pc[1] = "done" /\ fresh[1] /\ served[1] = Absent
    /\ result[1].kind = "record" /\ result[1].source = "alphavantage"
    /\ wrote[1] = "ok"
    /\ ReadOutcome(MyFile(1)) # Raised
    /\ Equivalent(ReadOutcome(MyFile(1)), result[1])

\* C16 as stated: the step at which the cache write of a call fails returns
\* the fetched record and leaves the cache file as it was before the call
\* opened it.
C16_FailedWriteLeavesCache ==
    [][\A p \in Procs :
         (pc[p] \in WriteLabels /\ Acts(p) /\ wrote'[p] = "failed")
         => /\ result'[p] = data[p] /\ result'[p].kind = "record"
            /\ MyFile(p)' = (IF pc[p] = "open" THEN MyFile(p) ELSE before[p])]_vars

\* the primary attempt of the call of p is about to end without data at this
\* step: no key, a failed time-series call, or an overview call that raised
PrimaryFails(p) ==
    \/ pc[p] = "time_series" /\ NoKey
    \/ pc[p] = "time_series_received" /\ TimeSeriesOutcome(ticker[p], response[p]) = None
    \/ pc[p] = "overview_received" /\ OverviewOutcome(data[p], response[p]) = None

\* C17: a call served from the cache has asked no source; a call turns to
\* the secondary only at a step where its own primary attempt ends without
\* data; a call that holds a record of the primary has not called the
\* secondary, returns that record and writes no other text; and a fetched
\* record with the secondary identifier is what the secondary call of that
\* same call gave.
C17_TierOrder ==
    /\ [](\A p \in Procs : served[p] # Absent => calls[p] = <<>>)
    /\ [][\A p \in Procs : (Acts(p) /\ pc'[p] = "yahoo") => PrimaryFails(p)]_vars
    /\ [](\A p \in Procs : pc[p] = "yahoo" => data[p] = None)
    /\ [](\A p \in Procs :
            (pc[p] \in WriteLabels \cup {"done"} /\ FromPrimary(data[p]))
            => /\ ~Called(p, "yahoo")
               /\ calls[p] = <<"time_series", "overview">>
               /\ pc[p] = "done" => result[p] = data[p])
    /\ [][\A p \in Procs :
            (Acts(p) /\ FromPrimary(data[p]) /\ files' # files)
            => \A i \in 1..Len(MyFile(p).blocks') :
                  (i > Len(MyFile(p).blocks) \/ MyFile(p).blocks'[i] # MyFile(p).blocks[i])
                  => MyFile(p).blocks'[i].js = Dumps(data[p])]_vars
    /\ [](\A p \in Procs :
            (served[p] = Absent /\ data[p].kind = "record" /\ data[p].source = "yahoo")
            => /\ Called(p, "yahoo")
               /\ data[p] = YahooOutcome(ticker[p], response[p]))

\* the primary gave a record: the call returned it, the file holds it, and
\* the secondary was not called
C17_Witness ==
    /\ pc[1] = "done" /\ wrote[1] = "ok" /\ ~Called(1, "yahoo")
    /\ FromPrimary(result[1])
    /\ MyFile(1).blocks = Serialize(result[1])
    /\ MyFile(1).blocks[1].js.source = "alphavantage"

\* the labels at which the call looks at its cache file
CacheLabels == {"exists", "getmtime", "read"}

\* C18: the steps of the cache check leave every file as it is, modification
\* time included; a modification time changes only when a call writes the
\* file (to the time of the write) or the file is removed; and the age check
\* lets the read happen only before modification time + duration.
C18_TimeToLiveFromWrite ==
    /\ [][\A p \in Procs : (pc[p] \in CacheLabels /\ Acts(p)) => files' = files]_vars
    /\ [][\A f \in CacheFiles :
            files'[f].mtime # files[f].mtime
            => \/ files'[f] = NoFile
               \/ /\ files'[f].mtime = clock
                  /\ \E p \in Procs :
                        pc[p] \in WriteLabels /\ Acts(p) /\ CacheFile(ticker[p]) = f]_vars
    /\ [][\A p \in Procs :
            (pc[p] = "getmtime" /\ Acts(p) /\ pc'[p] = "read")
            => clock < MyFile(p).mtime + cache_duration]_vars

\* a hit at time 1 on a file written at time 0: the file still says 0
C18_Witness ==
    /\ pc[1] = "done" /\ served[1] # Absent /\ result[1].kind = "record"
    /\ clock = 1 /\ MyFile(1).exists /\ MyFile(1).mtime = 0
    /\ MyFile(1).blocks = served[1].blocks

\* the sequences of remote calls a call may have issued
CallOrders ==
    {<<>>, <<"time_series">>, <<"time_series", "overview">>,
     <<"time_series", "yahoo">>, <<"time_series", "overview", "yahoo">>, <<"yahoo">>}

\* the labels of a call in the order of the code
Labels ==
    <<"idle", "exists", "getmtime", "read", "time_series", "time_series_received",
      "overview", "overview_received", "yahoo", "yahoo_received", "open", "head", "tail",
      "done">>

Rank(l) == CHOOSE i \in 1..Len(Labels) : Labels[i] = l

\* C19: the remote calls of a call are at most the time-series, the overview
\* and the secondary call, each once and in that order; the overview is asked
\* only with a record built from a status-200 time-series response without
\* error key and with entries; and the call never goes back: every step takes
\* it to a later label, and a call under way, whose steps are taken whenever
\* they can be, reaches its return.
C19_NoRetryAndFinishes ==
    /\ [](\A p \in Procs : calls[p] \in CallOrders)
    /\ [](\A p \in Procs :
            pc[p] = "overview"
            => /\ calls[p] = <<"time_series">>
               /\ response[p].kind = "response" /\ response[p].status_code = 200
               /\ ~ListedPrimaryFailure(response[p])
               /\ FromPrimary(data[p]) /\ data[p].prices # <<>>)
    /\ [][\A p \in Procs :
            (Acts(p) /\ pc[p] # "done") => Rank(pc'[p]) > Rank(pc[p])]_vars
    /\ \A p \in {1} : (pc[p] # "idle") ~> (pc[p] = "done")

\* a call that issued all three remote calls and returned
C19_Witness ==
    /\ pc[1] = "done"
    /\ calls[1] = <<"time_series", "overview", "yahoo">>
    /\ result[1].kind = "record"

\* the overview response is available: status 200 and a body with "Symbol"
OverviewAvailable(r) ==
    /\ r.kind = "response"
    /\ r.status_code = 200
    /\ r.json # Raised
    /\ "Symbol" \in DOMAIN r.json

\* C20 as stated: whatever the overview call gives, the call goes on to
\* write and return the record of the primary, with company_info attached
\* exactly when the overview is available, and does not turn to the secondary.
C20_OverviewDoesNotDecide ==
    [][\A p \in Procs :
         (pc[p] = "overview_received" /\ Acts(p))
         => /\ pc'[p] = "open"
            /\ FromPrimary(data'[p])
            /\ data'[p].prices = data[p].prices
            /\ (data'[p].company_info # Absent) <=> OverviewAvailable(response[p])]_vars

====
